---- MODULE Spec2Model ----
(***************************************************************************)
(* wp-env: compilation of a loaded .wp-env.json config into the            *)
(* docker-compose topology and the Docker build files.                     *)
(*                                                                         *)
(*   src/lib/config-functions.js          image tags, Xdebug gate          *)
(*   src/lib/build-docker-compose-config.js   mounts, shared core, topology*)
(*   src/unnamed/part_001                 initConfig (build, then write)   *)
(*                                                                         *)
(* A JavaScript string is a sequence of one-character strings, so that     *)
(* split, parseInt, endsWith, path.join and template concatenation are     *)
(* computed character by character.                                        *)
(***************************************************************************)
EXTENDS Integers, Sequences, FiniteSets

(***************************************************************************)
(* Bounds of the model.                                                    *)
(***************************************************************************)
\* phpVersion inputs "M.N" range over M in 0..MaxMajor, N in 0..MaxMinor
MaxMajor == 8
MaxMinor == 6
\* entries of mappings / pluginSources / themeSources of one environment
MaxMappings == 2
MaxPlugins == 2
MaxThemes == 1
\* entries over both environments of one compiled config
MaxConfigEntries == 1
\* entries of the directory listing of a local core source
MaxDirEntries == 2

(***************************************************************************)
(* JavaScript values.                                                      *)
(***************************************************************************)
\* the value undefined where a string is expected (no string has this shape)
Undefined == <<"{undefined}">>

\* ToString( undefined )
ToString(s) ==
    IF s = Undefined THEN <<"u","n","d","e","f","i","n","e","d">> ELSE s

\* ToBoolean of a string-or-undefined value
Truthy(s) == s # Undefined /\ s # <<>>

\* an absent Source (config.coreSource undefined or null)
NoSource ==
    [type |-> "absent", path |-> Undefined, testsPath |-> Undefined,
     basename |-> Undefined]

Present(source) == source.type # "absent"

EndsWith(s, suffix) ==
    /\ Len(suffix) <= Len(s)
    /\ SubSeq(s, Len(s) - Len(suffix) + 1, Len(s)) = suffix

StartsWith(s, prefix) ==
    /\ Len(prefix) <= Len(s)
    /\ SubSeq(s, 1, Len(prefix)) = prefix

IndexOf(list, x) ==
    IF \E i \in 1..Len(list) : list[i] = x
    THEN (CHOOSE i \in 1..Len(list) :
              list[i] = x /\ \A j \in 1..(i - 1) : list[j] # x) - 1
    ELSE -1

\* String.prototype.split( sep ) for a one-character separator
RECURSIVE Split(_, _)
Split(s, sep) ==
    IF \E i \in 1..Len(s) : s[i] = sep
    THEN LET i == CHOOSE k \in 1..Len(s) :
                      s[k] = sep /\ \A j \in 1..(k - 1) : s[j] # sep
         IN  <<SubSeq(s, 1, i - 1)>> \o Split(SubSeq(s, i + 1, Len(s)), sep)
    ELSE <<s>>

\* versionTokens[ i ] with a 0-based index: undefined past the end
At(list, i) == IF i + 1 \in 1..Len(list) THEN list[i + 1] ELSE Undefined

(***************************************************************************)
(* parseInt( string ) without a radix (ECMAScript 19.2.5).                 *)
(***************************************************************************)
WhiteSpace == {" ", "\t", "\n"}

DigitValue(c) ==
    CASE c = "0" -> 0 [] c = "1" -> 1 [] c = "2" -> 2 [] c = "3" -> 3
      [] c = "4" -> 4 [] c = "5" -> 5 [] c = "6" -> 6 [] c = "7" -> 7
      [] c = "8" -> 8 [] c = "9" -> 9
      [] c \in {"a", "A"} -> 10 [] c \in {"b", "B"} -> 11
      [] c \in {"c", "C"} -> 12 [] c \in {"d", "D"} -> 13
      [] c \in {"e", "E"} -> 14 [] c \in {"f", "F"} -> 15
      [] OTHER -> 99

IsDigit(c, radix) == DigitValue(c) < radix

RECURSIVE TrimStart(_)
TrimStart(s) ==
    IF s # <<>> /\ Head(s) \in WhiteSpace THEN TrimStart(Tail(s)) ELSE s

\* the longest prefix of s made of radix digits
RECURSIVE DigitPrefix(_, _)
DigitPrefix(s, radix) ==
    IF s # <<>> /\ IsDigit(Head(s), radix)
    THEN <<Head(s)>> \o DigitPrefix(Tail(s), radix)
    ELSE <<>>

RECURSIVE DigitsValue(_, _, _)
DigitsValue(z, radix, acc) ==
    IF z = <<>> THEN acc
    ELSE DigitsValue(Tail(z), radix, acc * radix + DigitValue(Head(z)))

NaN == [nan |-> TRUE, num |-> 0]
Number(n) == [nan |-> FALSE, num |-> n]
isNaN(v) == v.nan

parseInt(string) ==
    LET S0 == TrimStart(ToString(string))
        neg == S0 # <<>> /\ Head(S0) = "-"
        S1 == IF S0 # <<>> /\ Head(S0) \in {"+", "-"} THEN Tail(S0) ELSE S0
        hex == StartsWith(S1, <<"0","x">>) \/ StartsWith(S1, <<"0","X">>)
        S2 == IF hex THEN SubSeq(S1, 3, Len(S1)) ELSE S1
        R == IF hex THEN 16 ELSE 10
        Z == DigitPrefix(S2, R)
    IN  IF Z = <<>> THEN NaN
        ELSE Number((IF neg THEN -1 ELSE 1) * DigitsValue(Z, R, 0))

(***************************************************************************)
(* Inputs: phpVersion strings and debugger modes.                          *)
(***************************************************************************)
DigitChar(d) ==
    CASE d = 0 -> "0" [] d = 1 -> "1" [] d = 2 -> "2" [] d = 3 -> "3"
      [] d = 4 -> "4" [] d = 5 -> "5" [] d = 6 -> "6" [] d = 7 -> "7"
      [] d = 8 -> "8" [] d = 9 -> "9"

\* the decimal numeral of a natural number
RECURSIVE Numeral(_)
Numeral(n) ==
    IF n < 10 THEN <<DigitChar(n)>>
    ELSE Numeral(n \div 10) \o <<DigitChar(n % 10)>>

VersionString(M, N) == Numeral(M) \o <<".">> \o Numeral(N)

\* phpVersion strings of the form "M.N"
WellFormedVersions ==
    {VersionString(M, N) : M \in 0..MaxMajor, N \in 0..MaxMinor}
        \cup {VersionString(7, 10), VersionString(10, 0), VersionString(12, 1)}

\* phpVersion strings the parser must reject, or accepts by its prefix rule
OtherVersions ==
    { <<"7">>, <<"x",".","y">>, <<"7",".","x">>, <<".","2">>, <<"7",".">>,
      <<"7",".","2",".","1">>, <<"5",".","6",".","4","0">>,
      <<"7",".","4","r","c">>, <<"l","a","t","e","s","t">>,
      <<"-","1",".","5">>, <<" ","8",".","0">>, <<"0","x","8",".","1">> }

\* config.env.<environment>.phpVersion: a string, the empty string, or unset
Versions == WellFormedVersions \cup OtherVersions \cup {<<>>, Undefined}

\* config.xdebug (the --xdebug option; "off" is its default)
XdebugModes ==
    { <<"o","f","f">>, <<"d","e","b","u","g">>,
      <<"d","e","v","e","l","o","p">> }

Off == <<"o","f","f">>

(***************************************************************************)
(* Inputs: sources and environment configs.                                *)
(***************************************************************************)
Source(type, path, testsPath, basename) ==
    [type |-> type, path |-> path, testsPath |-> testsPath,
     basename |-> basename]

\* core sources as the config loader resolves them: an absolute path and a
\* separate tests copy under the work directory ("/e")
LocalCoreW ==
    Source("local", <<"/","w">>, <<"/","e","/","t","e","s","t","s","-","w">>,
           <<"w">>)
LocalCoreV ==
    Source("local", <<"/","v">>, <<"/","e","/","t","e","s","t","s","-","v">>,
           <<"v">>)
GitCoreG ==
    Source("git", <<"/","e","/","g">>,
           <<"/","e","/","t","e","s","t","s","-","g">>, <<"g">>)

CoreSources == {NoSource, LocalCoreW, LocalCoreV, GitCoreG}

\* entries of config.mappings: [ wpDir, source ]
UploadsMapping ==
    [wpDir |-> <<"w","p","-","c","o","n","t","e","n","t","/","u","p","l","o","a","d","s">>,
     source |-> Source("local", <<"/","u">>, Undefined, <<"u">>)]
HtaccessMapping ==
    [wpDir |-> <<".","h","t","a","c","c","e","s","s">>,
     source |-> Source("local", <<"/","h">>, Undefined, <<"h">>)]

MappingEntries == {UploadsMapping, HtaccessMapping}

PluginSources ==
    { Source("local", <<"/","p">>, Undefined, <<"p">>),
      Source("git", <<"/","e","/","q">>, Undefined, <<"q">>) }

ThemeSources ==
    { Source("local", <<"/","t">>, Undefined, <<"t">>),
      Source("zip", <<"/","e","/","z">>, Undefined, <<"z">>) }

SeqsUpTo(S, n) == UNION {[1..k -> S] : k \in 0..n}

\* Object.entries( mappings ): the keys of an object are distinct
MappingLists ==
    {m \in SeqsUpTo(MappingEntries, MaxMappings) :
        \A i, j \in 1..Len(m) : m[i].wpDir = m[j].wpDir => i = j}

EnvConfig(phpVersion, coreSource, mappings, pluginSources, themeSources) ==
    [phpVersion |-> phpVersion, coreSource |-> coreSource,
     mappings |-> mappings, pluginSources |-> pluginSources,
     themeSources |-> themeSources]

\* environment configs for a call of getMounts
EnvConfigs ==
    {EnvConfig(Undefined, c, m, p, t) :
        c \in CoreSources, m \in MappingLists,
        p \in SeqsUpTo(PluginSources, MaxPlugins),
        t \in SeqsUpTo(ThemeSources, MaxThemes)}

\* an environment config with a phpVersion and nothing else
VersionEnv(phpVersion) == EnvConfig(phpVersion, NoSource, <<>>, <<>>, <<>>)

\* directories of the run: the current directory, which holds .wp-env.json,
\* and the work directory ~/.wp-env/<hash>
Cwd == <<"/","c">>
WorkDirectoryPath == <<"/","e">>

Config(xdebug, development, tests) ==
    [xdebug |-> xdebug, env |-> [development |-> development, tests |-> tests],
     configDirectoryPath |-> Cwd, workDirectoryPath |-> WorkDirectoryPath]

\* configs for a call of the image and Xdebug functions
VersionConfigs ==
    {Config(x, VersionEnv(d), VersionEnv(t)) :
        x \in XdebugModes, d \in Versions, t \in Versions}

(***************************************************************************)
(* src/lib/config-functions.js                                             *)
(***************************************************************************)
getPhpVersions(config) ==
    [developmentPhpVersion |->
        IF Truthy(config.env.development.phpVersion)
        THEN config.env.development.phpVersion ELSE <<>>,
     testsPhpVersion |->
        IF Truthy(config.env.tests.phpVersion)
        THEN config.env.tests.phpVersion ELSE <<>>]

getWpImages(config) ==
    LET v == getPhpVersions(config)
        wordpress == <<"w","o","r","d","p","r","e","s","s">>
        php == <<":","p","h","p">>
    IN  [developmentWpImage |->
            wordpress \o (IF Truthy(v.developmentPhpVersion)
                          THEN php \o v.developmentPhpVersion ELSE <<>>),
         testsWpImage |->
            wordpress \o (IF Truthy(v.testsPhpVersion)
                          THEN php \o v.testsPhpVersion ELSE <<>>)]

getCliImages(config) ==
    LET v == getPhpVersions(config)
        cli == <<"w","o","r","d","p","r","e","s","s",":","c","l","i">>
        php == <<"-","p","h","p">>
    IN  [developmentWpCliImage |->
            cli \o (IF ~Truthy(v.developmentPhpVersion)
                       \/ Len(v.developmentPhpVersion) = 0
                    THEN <<>> ELSE php \o v.developmentPhpVersion),
         testsWpCliImage |->
            cli \o (IF ~Truthy(v.testsPhpVersion)
                       \/ Len(v.testsPhpVersion) = 0
                    THEN <<>> ELSE php \o v.testsPhpVersion)]

\* lines 46-58: phpunitTag, from the version looked up and the suffix appended
phpunitTagOf(testsPhpVersion, phpunitPhpVersion) ==
    IF testsPhpVersion = <<"5",".","6">> THEN <<"5">> \o phpunitPhpVersion
    ELSE IF testsPhpVersion = <<"7",".","0">>
         THEN <<"6">> \o phpunitPhpVersion
    ELSE IF testsPhpVersion = <<"7",".","1">>
         THEN <<"7">> \o phpunitPhpVersion
    ELSE IF IndexOf(<< <<"7",".","2">>, <<"7",".","3">>,
                       <<"7",".","4">> >>, testsPhpVersion) >= 0
         THEN <<"8">> \o phpunitPhpVersion
    ELSE IF testsPhpVersion = <<"8",".","0">>
         THEN <<"9">> \o phpunitPhpVersion
    ELSE <<"l","a","t","e","s","t">>

\* the lookup done on the development version
phpunitTagOfDevelopment(config) ==
    LET testsPhpVersion == getPhpVersions(config).developmentPhpVersion
    IN  phpunitTagOf(testsPhpVersion,
            <<"-","p","h","p","-">> \o testsPhpVersion \o <<"-","f","p","m">>)

\* the suffix built the way the CLI image's is: '-php' + version
phpunitTagCliSuffix(config) ==
    LET testsPhpVersion == getPhpVersions(config).testsPhpVersion
    IN  phpunitTagOf(testsPhpVersion,
            <<"-","p","h","p">> \o testsPhpVersion \o <<"-","f","p","m">>)

phpunitTag(config) ==
    LET testsPhpVersion == getPhpVersions(config).testsPhpVersion
    IN  phpunitTagOf(testsPhpVersion,
            <<"-","p","h","p","-">> \o testsPhpVersion \o <<"-","f","p","m">>)

getPhpunitImages(config) ==
    <<"w","o","r","d","p","r","e","s","s","d","e","v","e","l","o","p","/",
      "p","h","p","u","n","i","t",":">> \o phpunitTag(config)

\* the outcome of a call that may throw
Returned(value) == [thrown |-> "", value |-> value]
Thrown(message) == [thrown |-> message, value |-> FALSE]

ParseErrorMessage == "Something went wrong when parsing the PHP version."
UnsupportedMessage == "Cannot use XDebug 3 on PHP < 7.2."

\* the minimum taken as 7.3: minorVer <= 2 is refused
checkXdebugPhpCompatibilityOffByOne(config) ==
    IF Truthy(config.env.development.phpVersion)
    THEN LET versionTokens == Split(config.env.development.phpVersion, ".")
             majorVer == parseInt(At(versionTokens, 0))
             minorVer == parseInt(At(versionTokens, 1))
         IN  IF isNaN(majorVer) \/ isNaN(minorVer)
             THEN Thrown(ParseErrorMessage)
             ELSE IF majorVer.num < 7
                     \/ (majorVer.num = 7 /\ minorVer.num <= 2)
                  THEN Thrown(UnsupportedMessage)
                  ELSE Returned(TRUE)
    ELSE Returned(TRUE)

checkXdebugPhpCompatibility(config) ==
    IF Truthy(config.env.development.phpVersion)
    THEN LET versionTokens == Split(config.env.development.phpVersion, ".")
             majorVer == parseInt(At(versionTokens, 0))
             minorVer == parseInt(At(versionTokens, 1))
         IN  IF isNaN(majorVer) \/ isNaN(minorVer)
             THEN Thrown(ParseErrorMessage)
             ELSE IF majorVer.num < 7
                     \/ (majorVer.num = 7 /\ minorVer.num < 2)
                  THEN Thrown(UnsupportedMessage)
                  ELSE Returned(TRUE)
    ELSE Returned(TRUE)

\* the version checked before the mode is looked at
shouldInstallXdebugChecksFirst(config) ==
    LET usingCompatiblePhp == checkXdebugPhpCompatibility(config)
    IN  IF usingCompatiblePhp.thrown # "" THEN usingCompatiblePhp
        ELSE IF config.xdebug # Off /\ usingCompatiblePhp.value
             THEN Returned(TRUE)
             ELSE Returned(FALSE)

\* the version error swallowed: the gate is just closed
shouldInstallXdebugLenient(config) ==
    IF config.xdebug # Off
    THEN LET usingCompatiblePhp == checkXdebugPhpCompatibility(config)
         IN  IF usingCompatiblePhp.thrown # "" THEN Returned(FALSE)
             ELSE IF usingCompatiblePhp.value THEN Returned(TRUE)
                  ELSE Returned(FALSE)
    ELSE Returned(FALSE)

shouldInstallXdebug(config) ==
    IF config.xdebug # Off
    THEN LET usingCompatiblePhp == checkXdebugPhpCompatibility(config)
         IN  IF usingCompatiblePhp.thrown # "" THEN usingCompatiblePhp
             ELSE IF usingCompatiblePhp.value THEN Returned(TRUE)
                  ELSE Returned(FALSE)
    ELSE Returned(FALSE)

(***************************************************************************)
(* src/lib/build-docker-compose-config.js                                  *)
(***************************************************************************)
VarWwwHtml == <<":","/","v","a","r","/","w","w","w","/","h","t","m","l">>

\* the theme mounts put before the plugin mounts
getMountsThemesFirst(config, wordpressDefault) ==
    LET directoryMount(entry) ==
            entry.source.path \o VarWwwHtml \o <<"/">> \o entry.wpDir
        pluginMount(source) ==
            source.path \o VarWwwHtml
                \o <<"/","w","p","-","c","o","n","t","e","n","t","/",
                     "p","l","u","g","i","n","s","/">> \o source.basename
        themeMount(source) ==
            source.path \o VarWwwHtml
                \o <<"/","w","p","-","c","o","n","t","e","n","t","/",
                     "t","h","e","m","e","s","/">> \o source.basename
        directoryMounts ==
            [i \in 1..Len(config.mappings) |-> directoryMount(config.mappings[i])]
        pluginMounts ==
            [i \in 1..Len(config.pluginSources) |-> pluginMount(config.pluginSources[i])]
        themeMounts ==
            [i \in 1..Len(config.themeSources) |-> themeMount(config.themeSources[i])]
        coreMount ==
            (IF Present(config.coreSource) THEN config.coreSource.path
             ELSE wordpressDefault) \o VarWwwHtml
    IN  <<coreMount>> \o directoryMounts \o themeMounts \o pluginMounts

getMounts(config, wordpressDefault) ==
    LET directoryMount(entry) ==
            entry.source.path \o VarWwwHtml \o <<"/">> \o entry.wpDir
        pluginMount(source) ==
            source.path \o VarWwwHtml
                \o <<"/","w","p","-","c","o","n","t","e","n","t","/",
                     "p","l","u","g","i","n","s","/">> \o source.basename
        themeMount(source) ==
            source.path \o VarWwwHtml
                \o <<"/","w","p","-","c","o","n","t","e","n","t","/",
                     "t","h","e","m","e","s","/">> \o source.basename
        directoryMounts ==
            [i \in 1..Len(config.mappings) |-> directoryMount(config.mappings[i])]
        pluginMounts ==
            [i \in 1..Len(config.pluginSources) |-> pluginMount(config.pluginSources[i])]
        themeMounts ==
            [i \in 1..Len(config.themeSources) |-> themeMount(config.themeSources[i])]
        coreMount ==
            (IF Present(config.coreSource) THEN config.coreSource.path
             ELSE wordpressDefault) \o VarWwwHtml
    IN  <<coreMount>> \o directoryMounts \o pluginMounts \o themeMounts

\* require( './wordpress' ).hasSameCoreSource for two environments: both have
\* no core source, or both have one and the resolved paths are equal
hasSameCoreSource(development, tests) ==
    \/ ~Present(development.coreSource) /\ ~Present(tests.coreSource)
    \/ /\ Present(development.coreSource)
       /\ Present(tests.coreSource)
       /\ development.coreSource.path = tests.coreSource.path

\* path.join( dir, name ): the segments joined by "/" and runs of "/" collapsed
\* (neither argument holds a "." or ".." segment here)
RECURSIVE CollapseSlashes(_)
CollapseSlashes(s) ==
    IF Len(s) < 2 THEN s
    ELSE IF s[1] = "/" /\ s[2] = "/" THEN CollapseSlashes(Tail(s))
         ELSE <<Head(s)>> \o CollapseSlashes(Tail(s))

PathJoin(dir, name) ==
    IF dir = <<>> THEN CollapseSlashes(name)
    ELSE IF name = <<>> THEN CollapseSlashes(dir)
         ELSE CollapseSlashes(dir \o <<"/">> \o name)

WpConfigPhp == <<"w","p","-","c","o","n","f","i","g",".","p","h","p">>
WpConfigSamplePhp ==
    <<"w","p","-","c","o","n","f","i","g","-","s","a","m","p","l","e",".","p","h","p">>
WpContent == <<"w","p","-","c","o","n","t","e","n","t">>

\* whether the shared-core rewrite applies (the condition of the if)
sharesCoreSource(config) ==
    /\ Present(config.env.development.coreSource)
    /\ hasSameCoreSource(config.env.development, config.env.tests)

TestsWordpress ==
    <<"t","e","s","t","s","-","w","o","r","d","p","r","e","s","s">>

\* the filter of the listing with wp-config-sample.php left in
keepCoreEntryNoSample(filename) ==
    /\ filename # WpConfigPhp
    /\ filename # WpContent

\* lines 97-100: the filter of the listing
keepCoreEntry(filename) ==
    /\ filename # WpConfigPhp
    /\ filename # WpConfigSamplePhp
    /\ filename # WpContent

\* lines 88-111: testsMounts after the shift and the unshift; readdir is what
\* fs.readdirSync( wpSource.path ) returns
rewriteTestsMounts(config, testsMounts, readdir) ==
    LET wpSource == config.env.development.coreSource
        fileMount(filename) ==
            PathJoin(wpSource.path, filename) \o VarWwwHtml \o <<"/">>
                \o filename
        filenames == SelectSeq(readdir, keepCoreEntry)
    IN  <<ToString(wpSource.testsPath) \o VarWwwHtml>>
            \o (IF wpSource.type = "local"
                THEN [i \in 1..Len(filenames) |-> fileMount(filenames[i])]
                ELSE <<>>)
            \o Tail(testsMounts)

\* the rewrite done whenever development has a core source
mergeTestsMountsAnyCore(config, readdir) ==
    LET testsMounts == getMounts(config.env.tests, TestsWordpress)
    IN  IF Present(config.env.development.coreSource)
        THEN rewriteTestsMounts(config, testsMounts, readdir)
        ELSE testsMounts

\* lines 62-112: testsMounts as the services get it
mergeTestsMounts(config, readdir) ==
    LET testsMounts == getMounts(config.env.tests, TestsWordpress)
    IN  IF sharesCoreSource(config)
        THEN rewriteTestsMounts(config, testsMounts, readdir)
        ELSE testsMounts

UploadsSuffix ==
    <<":","/","v","a","r","/","w","w","w","/","h","t","m","l","/",
      "w","p","-","c","o","n","t","e","n","t","/","u","p","l","o","a","d","s">>

\* every in place of some
isMappingTestUploadsEvery(testsMounts) ==
    \A i \in 1..Len(testsMounts) : EndsWith(testsMounts[i], UploadsSuffix)

isMappingTestUploads(testsMounts) ==
    \E i \in 1..Len(testsMounts) : EndsWith(testsMounts[i], UploadsSuffix)

\* path.resolve( './.wpenv-config/phpcli-custom.ini' )
customCliConfigPath ==
    PathJoin(Cwd, <<".","w","p","e","n","v","-","c","o","n","f","i","g","/",
                    "p","h","p","c","l","i","-","c","u","s","t","o","m",".","i","n","i">>)

cliMounts(developmentMounts, customCliConfigExists) ==
    IF customCliConfigExists
    THEN developmentMounts \o
           <<customCliConfigPath \o
             <<":","/","u","s","r","/","l","o","c","a","l","/","e","t","c","/",
               "p","h","p","/","c","o","n","f",".","d","/",
               "p","h","p","c","l","i","-","c","u","s","t","o","m",".","i","n","i">> >>
    ELSE developmentMounts

\* tests-wordpress decided by the development core source
topLevelVolumesByDevelopment(config) ==
    (IF ~Present(config.env.development.coreSource)
     THEN <<"wordpress">> ELSE <<>>)
        \o (IF ~Present(config.env.development.coreSource)
            THEN <<"tests-wordpress">> ELSE <<>>)
        \o <<"mysql", "mysql-test", "phpunit-uploads", "phpunit-tmp">>

\* the keys of the returned object's volumes, in insertion order
topLevelVolumes(config) ==
    (IF ~Present(config.env.development.coreSource)
     THEN <<"wordpress">> ELSE <<>>)
        \o (IF ~Present(config.env.tests.coreSource)
            THEN <<"tests-wordpress">> ELSE <<>>)
        \o <<"mysql", "mysql-test", "phpunit-uploads", "phpunit-tmp">>

ServiceNames ==
    {"mysql", "tests-mysql", "wordpress", "tests-wordpress", "cli",
     "tests-cli", "composer", "phpunit"}

\* the volumes of the phpunit service
phpunitVolumes(testsMounts) ==
    testsMounts
        \o (IF ~isMappingTestUploads(testsMounts)
            THEN << <<"p","h","p","u","n","i","t","-","u","p","l","o","a","d","s">>
                      \o UploadsSuffix >>
            ELSE <<>>)
        \o << <<"p","h","p","u","n","i","t","-","t","m","p",":","/","t","m","p">> >>

\* of each service, the volumes and the keys of environment that depend on
\* the config (image, ports, depends_on, user and the database environment
\* are the same for every config)
Service(volumes, environment) ==
    [volumes |-> volumes, environment |-> environment]

\* a topology that was not built
NoTopology ==
    [services |-> [s \in ServiceNames |-> Service(<<>>, {})],
     volumes |-> <<>>]

\* the shift and the unshift done on developmentMounts as well
developmentMountsRewritten(config, readdir) ==
    LET mounts == getMounts(config.env.development,
                            <<"w","o","r","d","p","r","e","s","s">>)
    IN  IF sharesCoreSource(config)
        THEN rewriteTestsMounts(config, mounts, readdir)
        ELSE mounts

\* line 61: developmentMounts as the services get it; lines 84-112 shift and
\* unshift testsMounts only, whatever the listing is
developmentMountsOf(config, readdir) ==
    getMounts(config.env.development, <<"w","o","r","d","p","r","e","s","s">>)

\* buildDockerComposeConfig( config ), given what the file system answers:
\* readdir for fs.readdirSync( coreSource.path ), customCliConfigExists for
\* fs.existsSync( customCliConfigPath )
buildDockerComposeConfig(config, readdir, customCliConfigExists) ==
    LET developmentMounts == developmentMountsOf(config, readdir)
        testsMounts == mergeTestsMounts(config, readdir)
        installXdebug == shouldInstallXdebug(config)
    IN  IF installXdebug.thrown # ""
        THEN [thrown |-> installXdebug.thrown, value |-> NoTopology]
        ELSE [thrown |-> "",
              value |->
                [services |->
                   [s \in ServiceNames |->
                      CASE s = "mysql" ->
                             Service(<< <<"m","y","s","q","l",":","/","v","a","r","/",
                                          "l","i","b","/","m","y","s","q","l">> >>, {})
                        [] s = "tests-mysql" ->
                             Service(<< <<"m","y","s","q","l","-","t","e","s","t",":",
                                          "/","v","a","r","/","l","i","b","/",
                                          "m","y","s","q","l">> >>, {})
                        [] s = "wordpress" -> Service(developmentMounts, {})
                        [] s = "tests-wordpress" -> Service(testsMounts, {})
                        [] s = "cli" ->
                             Service(cliMounts(developmentMounts,
                                               customCliConfigExists), {})
                        [] s = "tests-cli" -> Service(testsMounts, {})
                        [] s = "composer" ->
                             Service(<<config.configDirectoryPath
                                         \o <<":","/","a","p","p">> >>, {})
                        [] s = "phpunit" ->
                             Service(phpunitVolumes(testsMounts),
                                     IF installXdebug.value
                                     THEN {"LOCAL_PHP_XDEBUG"} ELSE {})],
                 volumes |-> topLevelVolumes(config)]]

(***************************************************************************)
(* src/unnamed/part_001: the build files.  A generated text is kept as the *)
(* values put into its template: the image of FROM, whether the GMP block  *)
(* is there, and the xdebug.mode of the Xdebug block (empty: no block).    *)
(***************************************************************************)
Text(from, gmp, xdebug) == [from |-> from, gmp |-> gmp, xdebug |-> xdebug]

NoText == Text(<<>>, FALSE, <<>>)

installGmpExtension == TRUE

installXdebug(enableXdebug) == enableXdebug

dockerFileContents(config) ==
    LET image == getWpImages(config).developmentWpImage
        install == shouldInstallXdebug(config)
    IN  IF install.thrown # "" THEN [thrown |-> install.thrown, value |-> NoText]
        ELSE [thrown |-> "",
              value |-> Text(image, installGmpExtension,
                             IF install.value THEN installXdebug(config.xdebug)
                             ELSE <<>>)]

dockerFilePhpunit(config) ==
    LET phpunitImage == getPhpunitImages(config)
        install == shouldInstallXdebug(config)
    IN  IF install.thrown # "" THEN [thrown |-> install.thrown, value |-> NoText]
        ELSE [thrown |-> "",
              value |-> Text(phpunitImage, installGmpExtension,
                             IF install.value THEN installXdebug(config.xdebug)
                             ELSE <<>>)]

dockerFileCli(config) ==
    [thrown |-> "",
     value |-> Text(getCliImages(config).developmentWpCliImage, FALSE, <<>>)]

\* yaml.dump( dockerComposeConfig ): the text is kept as the object it dumps
yamlDump(dockerComposeConfig) == [yaml |-> dockerComposeConfig]

(***************************************************************************)
(* Inputs of a run of initConfig.                                          *)
(***************************************************************************)
Entries(environment) ==
    Len(environment.mappings) + Len(environment.pluginSources)
        + Len(environment.themeSources)

EnvConfigsOfSize(k) == {e \in EnvConfigs : Entries(e) = k}

\* the development environment has no core source, a local or a git one
DevelopmentConfigsOfSize(k) ==
    {e \in EnvConfigsOfSize(k) :
        e.coreSource \in {NoSource, LocalCoreW, GitCoreG}}

\* the two environments of one config: at most MaxConfigEntries entries
EnvPairs ==
    UNION {DevelopmentConfigsOfSize(k)
               \X UNION {EnvConfigsOfSize(j) : j \in 0..(MaxConfigEntries - k)} :
           k \in 0..MaxConfigEntries}

DevelopmentVersions ==
    {Undefined, <<"8",".","0">>, <<"5",".","6">>, <<"7",".","x">>}

TestsVersions == {Undefined, <<"7",".","4">>}

RunModes == {Off, <<"d","e","b","u","g">>}

\* what readConfig returns, with config.xdebug set from the option
RunConfigs ==
    {Config(x, [pair[1] EXCEPT !.phpVersion = d],
               [pair[2] EXCEPT !.phpVersion = t]) :
        x \in RunModes, pair \in EnvPairs,
        d \in DevelopmentVersions, t \in TestsVersions}

\* names of the top-level entries of a WordPress checkout
DirNames ==
    {WpConfigPhp, WpConfigSamplePhp, WpContent,
     <<"i","n","d","e","x",".","p","h","p">>}

\* directory listings: no name twice, in any order
DirListings ==
    {l \in SeqsUpTo(DirNames, MaxDirEntries) :
        \A i, j \in 1..Len(l) : l[i] = l[j] => i = j}

PathResolve(dir, name) == PathJoin(dir, name)

DockerComposeConfigPath ==
    PathResolve(WorkDirectoryPath,
        <<"d","o","c","k","e","r","-","c","o","m","p","o","s","e",".","y","m","l">>)
DockerfilePath ==
    PathResolve(WorkDirectoryPath, <<"D","o","c","k","e","r","f","i","l","e">>)
DockerfilePhpunitPath ==
    PathResolve(WorkDirectoryPath,
        <<"D","o","c","k","e","r","f","i","l","e","-","p","h","p","u","n","i","t">>)
DockerfileCliPath ==
    PathResolve(WorkDirectoryPath,
        <<"D","o","c","k","e","r","f","i","l","e","-","c","l","i">>)

(***************************************************************************)
(* State.                                                                  *)
(***************************************************************************)
VARIABLES
    pc,                    \* where initConfig is
    config,                \* the config object (after readConfig)
    writeChanges,          \* options.writeChanges
    dockerComposeConfig,   \* what buildDockerComposeConfig returned
    thrown,                \* the message of the error initConfig rejected with
    readdir,               \* what fs.readdirSync returned to the build
    customCliConfigExists, \* what fs.existsSync returned to the build
    workDir,               \* the work directory: as found, or created
    files,                 \* the writeFile calls so far: [path, data]
    fn,                    \* the function last called on its own
    args,                  \* its arguments
    ret                    \* its outcome

runVars ==
    <<pc, config, writeChanges, dockerComposeConfig, thrown, readdir,
      customCliConfigExists, workDir, files>>
callVars == <<fn, args, ret>>
vars == <<runVars, callVars>>

NoConfig == Config(Off, VersionEnv(Undefined), VersionEnv(Undefined))

Init ==
    /\ pc = "start"
    /\ config = NoConfig
    /\ writeChanges = FALSE
    /\ dockerComposeConfig = NoTopology
    /\ thrown = ""
    /\ readdir = <<>>
    /\ customCliConfigExists = FALSE
    /\ workDir = "unknown"
    /\ files = <<>>
    /\ fn = ""
    /\ args = <<>>
    /\ ret = <<>>

(***************************************************************************)
(* initConfig, one action per stretch between two awaits.                  *)
(***************************************************************************)
\* lines 43-50: readConfig resolves; config.xdebug is set
ReadConfig ==
    /\ pc = "start"
    /\ \E c \in RunConfigs, w \in BOOLEAN :
          /\ config' = c
          /\ writeChanges' = w
    /\ pc' = "loaded"
    /\ UNCHANGED <<dockerComposeConfig, thrown, readdir, customCliConfigExists,
                   workDir, files, callVars>>

\* whether the build lists the core directory
ReadsCoreDirectory(c) ==
    sharesCoreSource(c) /\ c.env.development.coreSource.type = "local"

\* line 52: buildDockerComposeConfig( config ) returns or throws
Build ==
    /\ pc = "loaded"
    /\ \E listing \in (IF ReadsCoreDirectory(config) THEN DirListings
                       ELSE {<<>>}),
          exists \in BOOLEAN :
          LET built == buildDockerComposeConfig(config, listing, exists)
          IN  /\ readdir' = listing
              /\ customCliConfigExists' = exists
              /\ IF built.thrown # ""
                 THEN /\ pc' = "thrown"
                      /\ thrown' = built.thrown
                      /\ UNCHANGED dockerComposeConfig
                 ELSE /\ pc' = "built"
                      /\ dockerComposeConfig' = built.value
                      /\ UNCHANGED thrown
    /\ UNCHANGED <<config, writeChanges, workDir, files, callVars>>

\* line 78: mkdir( config.workDirectoryPath, { recursive: true } )
Mkdir ==
    /\ pc = "built"
    /\ writeChanges
    /\ workDir' = "created"
    /\ pc' = "mkdir"
    /\ UNCHANGED <<config, writeChanges, dockerComposeConfig, thrown, readdir,
                   customCliConfigExists, files, callVars>>

\* a writeFile whose data is computed by a call that may throw
Write(from, to, path, data) ==
    /\ pc = from
    /\ IF data.thrown # ""
       THEN /\ pc' = "thrown"
            /\ thrown' = data.thrown
            /\ UNCHANGED files
       ELSE /\ pc' = to
            /\ files' = Append(files, [path |-> path, data |-> data.value])
            /\ UNCHANGED thrown
    /\ UNCHANGED <<config, writeChanges, dockerComposeConfig, readdir,
                   customCliConfigExists, workDir, callVars>>

\* lines 80-83
WriteDockerCompose ==
    Write("mkdir", "compose", DockerComposeConfigPath,
          [thrown |-> "", value |-> yamlDump(dockerComposeConfig)])

\* lines 85-90
WriteDockerfile ==
    Write("compose", "dockerfile", DockerfilePath, dockerFileContents(config))

\* lines 92-97
WriteDockerfilePhpunit ==
    Write("dockerfile", "phpunit", DockerfilePhpunitPath,
          dockerFilePhpunit(config))

\* lines 99-104, then return config
WriteDockerfileCli ==
    Write("phpunit", "returned", DockerfileCliPath, dockerFileCli(config))

\* lines 105-112: without writeChanges the work directory must exist
CheckInitialized ==
    /\ pc = "built"
    /\ ~writeChanges
    /\ \E found \in {"missing", "exists"} :
          /\ workDir' = found
          /\ pc' = IF found = "missing" THEN "exited" ELSE "returned"
    /\ UNCHANGED <<config, writeChanges, dockerComposeConfig, thrown, readdir,
                   customCliConfigExists, files, callVars>>

Next ==
    \/ ReadConfig
    \/ Build
    \/ Mkdir
    \/ WriteDockerCompose
    \/ WriteDockerfile
    \/ WriteDockerfilePhpunit
    \/ WriteDockerfileCli
    \/ CheckInitialized

Spec == Init /\ [][Next]_vars

(***************************************************************************)
(* The functions of config-functions.js and getMounts, called on their own:*)
(* one call per behaviour, from the initial state.                         *)
(***************************************************************************)
Call(name, arguments, outcome) ==
    /\ fn' = name
    /\ args' = arguments
    /\ ret' = outcome
    /\ UNCHANGED runVars

CallGetWpImages ==
    /\ fn = ""
    /\ \E c \in VersionConfigs :
        Call("getWpImages", [config |-> c], getWpImages(c))

CallGetCliImages ==
    /\ fn = ""
    /\ \E c \in VersionConfigs :
        Call("getCliImages", [config |-> c], getCliImages(c))

CallGetPhpunitImages ==
    /\ fn = ""
    /\ \E c \in VersionConfigs :
        Call("getPhpunitImages", [config |-> c], getPhpunitImages(c))

CallShouldInstallXdebug ==
    /\ fn = ""
    /\ \E c \in VersionConfigs :
        Call("shouldInstallXdebug", [config |-> c], shouldInstallXdebug(c))

MountDefaults ==
    { <<"w","o","r","d","p","r","e","s","s">>,
      <<"t","e","s","t","s","-","w","o","r","d","p","r","e","s","s">> }

CallGetMounts ==
    /\ fn = ""
    /\ \E e \in EnvConfigs, d \in MountDefaults :
        Call("getMounts", [config |-> e, wordpressDefault |-> d],
             getMounts(e, d))

NextCall ==
    \/ CallGetWpImages
    \/ CallGetCliImages
    \/ CallGetPhpunitImages
    \/ CallShouldInstallXdebug
    \/ CallGetMounts

SpecCall == Init /\ [][NextCall]_vars

(***************************************************************************)
(* Properties of the functions called on their own (SpecCall).             *)
(***************************************************************************)
CalledXdebugOn ==
    fn = "shouldInstallXdebug" /\ args.config.xdebug # Off

\* C1: with a debugger mode other than "off", shouldInstallXdebug returns
\* true for a development phpVersion "M.N" with (M,N) >= (7,2), raises the
\* unsupported-version error for one below 7.2, and returns true for an
\* unspecified version.
C1_XdebugGate ==
    CalledXdebugOn =>
        LET v == args.config.env.development.phpVersion
        IN  /\ \A M \in 0..(MaxMajor + 4), N \in 0..(MaxMinor + 4) :
                  v = VersionString(M, N) =>
                      IF M > 7 \/ (M = 7 /\ N >= 2)
                      THEN ret.thrown = "" /\ ret.value = TRUE
                      ELSE ret.thrown = UnsupportedMessage
            /\ v \in {Undefined, <<>>} => ret.thrown = "" /\ ret.value = TRUE

\* C1 witness: mode "debug" and phpVersion "7.2", the lowest accepted
C1_Witness ==
    /\ CalledXdebugOn
    /\ args.config.env.development.phpVersion = <<"7",".","2">>
    /\ ret.thrown = ""
    /\ ret.value = TRUE

\* C2: with the debugger mode "off", shouldInstallXdebug returns false and
\* raises nothing, whatever the development phpVersion is.
C2_OffNeverRaises ==
    (fn = "shouldInstallXdebug" /\ args.config.xdebug = Off) =>
        ret.thrown = "" /\ ret.value = FALSE

\* C2 witness: mode "off" with a version that does not parse
C2_Witness ==
    /\ fn = "shouldInstallXdebug"
    /\ args.config.xdebug = Off
    /\ args.config.env.development.phpVersion = <<"7",".","x">>
    /\ ret.thrown = ""
    /\ ret.value = FALSE

\* the tag of an image name: what follows the first ":"
TagOf(image) == At(Split(image, ":"), 1)

\* the runner major of a tag: what precedes the first "-"
RunnerMajorOf(tag) == At(Split(tag, "-"), 0)

\* the matrix as the claim states it
MatrixMajor(version) ==
    CASE version = <<"5",".","6">> -> <<"5">>
      [] version = <<"7",".","0">> -> <<"6">>
      [] version = <<"7",".","1">> -> <<"7">>
      [] version \in {<<"7",".","2">>, <<"7",".","3">>, <<"7",".","4">>}
             -> <<"8">>
      [] version = <<"8",".","0">> -> <<"9">>
      [] OTHER -> <<"l","a","t","e","s","t">>

\* C3: getPhpunitImages picks the runner major from the tests phpVersion by
\* the matrix, "latest" for every other value and for an unspecified one,
\* whatever the development phpVersion is.
C3_RunnerMajor ==
    fn = "getPhpunitImages" =>
        RunnerMajorOf(TagOf(ret))
            = MatrixMajor(args.config.env.tests.phpVersion)

\* C3 witness: tests "7.3" (the set entry) with development "5.6"
C3_Witness ==
    /\ fn = "getPhpunitImages"
    /\ args.config.env.tests.phpVersion = <<"7",".","3">>
    /\ args.config.env.development.phpVersion = <<"5",".","6">>
    /\ RunnerMajorOf(TagOf(ret)) = <<"8">>

\* the tests version as the tag spells it (empty when unspecified)
TagVersion(c) ==
    IF c.env.tests.phpVersion = Undefined THEN <<>>
    ELSE c.env.tests.phpVersion

TagSuffix(c) ==
    <<"-","p","h","p","-">> \o TagVersion(c) \o <<"-","f","p","m">>

\* C4 as stated: the tag is <runnerMajor>-php-<version>-fpm for every tests
\* phpVersion, latest-php-<version>-fpm when the runner major is latest.
C4_TagAlwaysSuffixed ==
    fn = "getPhpunitImages" =>
        TagOf(ret) = MatrixMajor(args.config.env.tests.phpVersion)
                         \o TagSuffix(args.config)

\* C4 amended: the tag is <runnerMajor>-php-<version>-fpm when the tests
\* phpVersion is in the matrix, and is exactly "latest" otherwise.
C4_TagForm ==
    fn = "getPhpunitImages" =>
        LET major == MatrixMajor(args.config.env.tests.phpVersion)
        IN  TagOf(ret) = IF major = <<"l","a","t","e","s","t">> THEN major
                         ELSE major \o TagSuffix(args.config)

\* C4 witness: tests "8.0" gives 9-php-8.0-fpm
C4_Witness ==
    /\ fn = "getPhpunitImages"
    /\ args.config.env.tests.phpVersion = <<"8",".","0">>
    /\ TagOf(ret) = <<"9","-","p","h","p","-","8",".","0","-","f","p","m">>

\* C5: getMounts returns 1 + |mappings| + |pluginSources| + |themeSources|
\* bindings: the core binding (coreSource.path, or the default name), then
\* one per mapping, one per plugin, one per theme, each in list order.
C5_MountOrder ==
    fn = "getMounts" =>
        LET e == args.config
            nm == Len(e.mappings)
            np == Len(e.pluginSources)
            nt == Len(e.themeSources)
            root == <<":","/","v","a","r","/","w","w","w","/","h","t","m","l">>
            plugins == <<"/","w","p","-","c","o","n","t","e","n","t","/",
                         "p","l","u","g","i","n","s","/">>
            themes == <<"/","w","p","-","c","o","n","t","e","n","t","/",
                        "t","h","e","m","e","s","/">>
        IN  /\ Len(ret) = 1 + nm + np + nt
            /\ ret[1] = (IF e.coreSource.type # "absent" THEN e.coreSource.path
                         ELSE args.wordpressDefault) \o root
            /\ \A i \in 1..nm :
                  ret[1 + i] = e.mappings[i].source.path \o root \o <<"/">>
                                   \o e.mappings[i].wpDir
            /\ \A i \in 1..np :
                  ret[1 + nm + i] = e.pluginSources[i].path \o root \o plugins
                                        \o e.pluginSources[i].basename
            /\ \A i \in 1..nt :
                  ret[1 + nm + np + i] = e.themeSources[i].path \o root
                                             \o themes
                                             \o e.themeSources[i].basename

\* C5 witness: a call with a mapping, a plugin and a theme and no core source
C5_Witness ==
    /\ fn = "getMounts"
    /\ args.config.coreSource = NoSource
    /\ Len(args.config.mappings) = 1
    /\ Len(args.config.pluginSources) = 1
    /\ Len(args.config.themeSources) = 1
    /\ Len(ret) = 4

(***************************************************************************)
(* Properties of a run of initConfig (Spec).                               *)
(***************************************************************************)
\* buildDockerComposeConfig has returned a topology
Compiled ==
    pc \in {"built", "mkdir", "compose", "dockerfile", "phpunit", "returned",
            "exited"}

VolumesOf(service) == dockerComposeConfig.services[service].volumes

Root == <<":","/","v","a","r","/","w","w","w","/","h","t","m","l">>

\* the shared-core precondition, as the claims state it
SharedCore ==
    /\ config.env.development.coreSource.type # "absent"
    /\ config.env.tests.coreSource.type # "absent"
    /\ config.env.development.coreSource.path
           = config.env.tests.coreSource.path

\* C6: when development has no coreSource or the two coreSource paths differ
\* (tests without a coreSource included), tests-wordpress and tests-cli get
\* getMounts( tests, 'tests-wordpress' ) unchanged.
C6_NotSharedUnchanged ==
    (Compiled /\ ~SharedCore) =>
        /\ VolumesOf("tests-wordpress")
               = getMounts(config.env.tests, TestsWordpress)
        /\ VolumesOf("tests-cli")
               = getMounts(config.env.tests, TestsWordpress)

\* C6 witness: development has a core source, tests has another one and a
\* plugin
C6_Witness ==
    /\ Compiled
    /\ config.env.development.coreSource = LocalCoreW
    /\ config.env.tests.coreSource = LocalCoreV
    /\ Len(config.env.tests.pluginSources) = 1
    /\ Len(VolumesOf("tests-wordpress")) = 2

\* the three entries of a core checkout that are not shared
C7_Excluded ==
    { <<"w","p","-","c","o","n","f","i","g",".","p","h","p">>,
      <<"w","p","-","c","o","n","f","i","g","-","s","a","m","p","l","e",".","p","h","p">>,
      <<"w","p","-","c","o","n","t","e","n","t">> }

C7_Shared(name) == name \notin C7_Excluded

\* C7: when development has a local coreSource whose path is the tests
\* coreSource path, the tests mounts are the testsPath binding, then one
\* binding <path>/<name>:/var/www/html/<name> per listed entry other than
\* wp-config.php, wp-config-sample.php and wp-content, then the original
\* tests mounts without their first entry; the raw core binding is absent.
C7_SharedLocalRewrite ==
    (Compiled /\ SharedCore /\ config.env.development.coreSource.type = "local")
    =>
        LET core == config.env.development.coreSource
            names == SelectSeq(readdir, C7_Shared)
            original == getMounts(config.env.tests, TestsWordpress)
            mounts == VolumesOf("tests-wordpress")
        IN  /\ Len(mounts) = 1 + Len(names) + Len(original) - 1
            /\ mounts[1] = core.testsPath \o Root
            /\ \A k \in 1..Len(names) :
                  mounts[1 + k] = core.path \o <<"/">> \o names[k] \o Root
                                      \o <<"/">> \o names[k]
            /\ \A k \in 2..Len(original) :
                  mounts[Len(names) + k] = original[k]
            /\ \A i \in 1..Len(mounts) :
                  /\ mounts[i] # core.path \o Root
                  /\ \A x \in C7_Excluded :
                        mounts[i] # core.path \o <<"/">> \o x \o Root
                                        \o <<"/">> \o x

\* C7 witness: the listing holds wp-config-sample.php and index.php, and
\* only index.php is bound
C7_Witness ==
    /\ Compiled
    /\ config.env.development.coreSource = LocalCoreW
    /\ config.env.tests.coreSource = LocalCoreW
    /\ readdir = << <<"w","p","-","c","o","n","f","i","g","-","s","a","m","p","l","e",".","p","h","p">>,
                    <<"i","n","d","e","x",".","p","h","p">> >>
    /\ Len(config.env.tests.mappings) = 1
    /\ Len(VolumesOf("tests-wordpress")) = 3

\* development versions the Xdebug check refuses: below 7.2, unparseable
C8_RefusedVersions == { <<"5",".","6">>, <<"7",".","x">> }

\* C8: with a mode other than "off" and a development phpVersion that is
\* unparseable or below 7.2, the build raises and initConfig rejects before
\* it creates the work directory or writes a file; and in every run nothing
\* is written before the build has returned a topology.
C8_VersionErrorFatal ==
    /\ (/\ pc \notin {"start", "loaded"}
        /\ config.xdebug # Off
        /\ config.env.development.phpVersion \in C8_RefusedVersions)
       => /\ pc = "thrown"
          /\ thrown \in {ParseErrorMessage, UnsupportedMessage}
          /\ dockerComposeConfig = NoTopology
          /\ workDir = "unknown"
          /\ files = <<>>
    /\ (files # <<>> \/ workDir = "created")
       => /\ thrown = ""
          /\ pc \in {"mkdir", "compose", "dockerfile", "phpunit", "returned"}
          /\ dockerComposeConfig # NoTopology

\* C8 witness: writeChanges, mode "debug", development phpVersion "5.6"
C8_Witness ==
    /\ pc = "thrown"
    /\ writeChanges
    /\ config.xdebug # Off
    /\ config.env.development.phpVersion = <<"5",".","6">>
    /\ thrown = UnsupportedMessage
    /\ files = <<>>

C9_Uploads ==
    <<":","/","v","a","r","/","w","w","w","/","h","t","m","l","/",
      "w","p","-","c","o","n","t","e","n","t","/","u","p","l","o","a","d","s">>

C9_ManagedUploads ==
    <<"p","h","p","u","n","i","t","-","u","p","l","o","a","d","s">>
        \o C9_Uploads

C9_Tmp == <<"p","h","p","u","n","i","t","-","t","m","p",":","/","t","m","p">>

\* C9: the phpunit volumes are the final tests mounts, then the managed
\* uploads binding iff no tests mount ends with
\* ":/var/www/html/wp-content/uploads", then phpunit-tmp:/tmp; a tests
\* mapping of wp-content/uploads is never joined by the managed binding.
C9_PhpunitVolumes ==
    Compiled =>
        LET mounts == VolumesOf("tests-wordpress")
            volumes == VolumesOf("phpunit")
            mapped ==
                \E i \in 1..Len(mounts) :
                    /\ Len(mounts[i]) >= Len(C9_Uploads)
                    /\ \A k \in 1..Len(C9_Uploads) :
                          mounts[i][Len(mounts[i]) - Len(C9_Uploads) + k]
                              = C9_Uploads[k]
        IN  /\ volumes = mounts
                   \o (IF mapped THEN <<>> ELSE <<C9_ManagedUploads>>)
                   \o <<C9_Tmp>>
            /\ (\E i \in 1..Len(config.env.tests.mappings) :
                    config.env.tests.mappings[i].wpDir
                        = <<"w","p","-","c","o","n","t","e","n","t","/",
                            "u","p","l","o","a","d","s">>)
               => \A i \in 1..Len(volumes) : volumes[i] # C9_ManagedUploads

\* C9 witness: tests maps wp-content/uploads, and phpunit gets the tests
\* mounts and the tmp volume only
C9_Witness ==
    /\ Compiled
    /\ config.env.tests.mappings = <<UploadsMapping>>
    /\ config.env.tests.coreSource = LocalCoreV
    /\ VolumesOf("phpunit") = VolumesOf("tests-wordpress") \o <<C9_Tmp>>
    /\ Len(VolumesOf("phpunit")) = 3

\* C10: the declared volumes are mysql, mysql-test, phpunit-uploads and
\* phpunit-tmp, wordpress iff development has no coreSource and
\* tests-wordpress iff tests has no coreSource, and no other.
C10_NamedVolumes ==
    Compiled =>
        LET declared ==
                {dockerComposeConfig.volumes[i] :
                    i \in 1..Len(dockerComposeConfig.volumes)}
        IN  /\ declared =
                   {"mysql", "mysql-test", "phpunit-uploads", "phpunit-tmp"}
                       \cup (IF config.env.development.coreSource.type = "absent"
                             THEN {"wordpress"} ELSE {})
                       \cup (IF config.env.tests.coreSource.type = "absent"
                             THEN {"tests-wordpress"} ELSE {})
            /\ Cardinality(declared) = Len(dockerComposeConfig.volumes)

\* C10 witness: development has a core source and tests has none
C10_Witness ==
    /\ Compiled
    /\ config.env.development.coreSource = LocalCoreW
    /\ config.env.tests.coreSource = NoSource
    /\ dockerComposeConfig.volumes
           = <<"tests-wordpress", "mysql", "mysql-test", "phpunit-uploads",
               "phpunit-tmp">>

C11_Wordpress == <<"w","o","r","d","p","r","e","s","s">>

\* <cwd>/.wpenv-config/phpcli-custom.ini bound to the CLI's conf.d
C11_CustomIni ==
    <<"/","c","/",".","w","p","e","n","v","-","c","o","n","f","i","g","/",
      "p","h","p","c","l","i","-","c","u","s","t","o","m",".","i","n","i",
      ":","/","u","s","r","/","l","o","c","a","l","/","e","t","c","/",
      "p","h","p","/","c","o","n","f",".","d","/",
      "p","h","p","c","l","i","-","c","u","s","t","o","m",".","i","n","i">>

\* C11: whether or not the two environments share a core source, the
\* wordpress service gets getMounts( development ) exactly, and the cli
\* service gets that list, followed by the one custom php.ini binding when
\* that file exists on the host and by nothing otherwise.
C11_DevelopmentMountsKept ==
    Compiled =>
        LET mounts == getMounts(config.env.development, C11_Wordpress)
        IN  /\ VolumesOf("wordpress") = mounts
            /\ VolumesOf("cli")
                   = mounts \o (IF customCliConfigExists
                                THEN <<C11_CustomIni>> ELSE <<>>)

\* C11 witness: both environments share the local core, whose listing was
\* read, and the custom php.ini exists
C11_Witness ==
    /\ Compiled
    /\ config.env.development.coreSource = LocalCoreW
    /\ config.env.tests.coreSource = LocalCoreW
    /\ readdir # <<>>
    /\ customCliConfigExists
    /\ Len(config.env.development.pluginSources) = 1
    /\ VolumesOf("wordpress")[1] = <<"/","w">> \o Root
    /\ Len(VolumesOf("cli")) = 3

====
